---- MODULE Spec2Model ----
(***************************************************************************)
(* A model of the SEO / AI-overview report tool: the Streamlit run of      *)
(* app.py (one submitted form = one top-to-bottom run of the script) and   *)
(* the helper functions of utils.py and report_generator.py.               *)
(*                                                                         *)
(* Conventions.  Python's None is the string "None"; a dict key that is    *)
(* not present is the string "absent".  Similarity scores are hundredths   *)
(* (0.75 is 75).  Strings that the code only stores and copies are short   *)
(* model strings.                                                          *)
(***************************************************************************)
EXTENDS Integers, Sequences, FiniteSets, TLC

(***************************************************************************)
(* Bounds of the model.                                                    *)
(***************************************************************************)
\* longest organic_results / references list of a SERP response
MaxOrganic == 2
\* longest organic_results / references list of the SERP response of a run
MaxRunOrganic == 1
\* longest organic_results list of a site search in a run
MaxRunResults == 1

None == "None"
Absent == "absent"

\* all sequences over S of length 0..n
RECURSIVE SeqsUpTo(_, _)
SeqsUpTo(S, n) ==
    IF n = 0 THEN {<<>>}
    ELSE LET shorter == SeqsUpTo(S, n - 1)
         IN  shorter \cup {Append(s, x) : s \in {t \in shorter : Len(t) = n - 1}, x \in S}

\* the elements of a sequence
Range(s) == {s[i] : i \in 1..Len(s)}

\* s[1..n], python's s[:n]
Take(s, n) == SubSeq(s, 1, IF n < Len(s) THEN n ELSE Len(s))

\* [f(x) for x in s if p(x)]
RECURSIVE SelectIdx(_, _, _)
SelectIdx(s, keep, i) ==
    IF i > Len(s) THEN <<>>
    ELSE (IF keep[i] THEN <<s[i]>> ELSE <<>>) \o SelectIdx(s, keep, i + 1)

(***************************************************************************)
(* The state of one run of app.py.                                         *)
(***************************************************************************)
VARIABLES
    pc,                     \* the statement of the script the run is at
    active,                 \* the step whose call is executing, or None
    started,                \* the steps called so far, in call order
    returned,               \* the steps that have returned so far
    SERPAPI_KEY,            \* st.secrets["SERPAPI_KEY"]
    serp_data,              \* the SERP response for the keyword
    content_data,           \* analyze_target_content's result
    linkedin_results,
    reddit_results,
    ranked_linkedin_titles,
    ranked_reddit_titles,
    youtube_results,
    pdf_path,               \* generate_pdf_report's result
    downloads,              \* the download buttons the page shows
    reports                 \* what each generated report displays

runVars == <<pc, active, started, returned, SERPAPI_KEY, serp_data, content_data,
             linkedin_results, reddit_results, ranked_linkedin_titles,
             ranked_reddit_titles, youtube_results, pdf_path, downloads, reports>>

(***************************************************************************)
(* The call frame of a helper function checked on its own: the function,   *)
(* its arguments, the outcome of what it calls, and what it returned.      *)
(***************************************************************************)
VARIABLES
    fn,                     \* the function that was called, or None
    args,                   \* its arguments and the outcomes of its environment
    locals,                 \* the local variables of a loop in progress
    ret                     \* its return value; Raised if an exception left it

callVars == <<fn, args, locals, ret>>

vars == <<pc, active, started, returned, SERPAPI_KEY, serp_data, content_data,
          linkedin_results, reddit_results, ranked_linkedin_titles,
          ranked_reddit_titles, youtube_results, pdf_path, downloads, reports,
          fn, args, locals, ret>>

Raised == "raised"

\* the outcome of a call: a returned value, or an exception that left the call
Ok(v) == [raised |-> FALSE, value |-> v]
Exc == [raised |-> TRUE, value |-> None]

(***************************************************************************)
(* Schema markup (JSON-LD).  A parsed JSON value is a tagged record:       *)
(*   [kind |-> "dict", type |-> <@type>, graph |-> <@graph value>]         *)
(*   [kind |-> "list", items |-> <sequence of values>]                     *)
(*   [kind |-> "scalar"]            a string, number, bool or null         *)
(* and the value under "@type" is                                          *)
(*   [kind |-> "absent"]            no "@type" key                         *)
(*   [kind |-> "str", v |-> s]      a string                               *)
(*   [kind |-> "num"]               a value that is neither str nor list   *)
(*   [kind |-> "list", items |-> <sequence of "str" / "num" values>]       *)
(***************************************************************************)
\* longest "@type" list
MaxTypeList == 1
\* most <script type="application/ld+json"> blocks of a page
MaxScripts == 1

\* str.lower() on the strings of the model
Lower(s) ==
    CASE s = "BreadcrumbList" -> "breadcrumblist"
      [] s = "FAQPage"        -> "faqpage"
      [] s = "Article"        -> "article"
      [] s = "articleBody"    -> "articlebody"
      [] s = "VideoObject"    -> "videoobject"
      [] s = "Organization"   -> "organization"
      [] s = "HowTo"          -> "howto"
      [] s = "Thing"          -> "thing"
      [] OTHER                -> s

App_SCHEMA_CHECKLIST ==
    << <<"Breadcrumbs", "BreadcrumbList">>, <<"FAQ", "FAQPage">>,
       <<"Article", "Article">>, <<"Video", "VideoObject">>,
       <<"Organization", "Organization">>, <<"How-to", "HowTo">> >>

SCHEMA_CHECKLIST ==
    << <<"Breadcrumbs", "BreadcrumbList">>, <<"FAQ", "FAQPage">>,
       <<"Article", "articleBody">>, <<"Video", "VideoObject">>,
       <<"Organization", "Organization">>, <<"How-to", "HowTo">> >>

JsonScalar == [kind |-> "scalar"]
JsonDict(t, g) == [kind |-> "dict", type |-> t, graph |-> g]
JsonList(items) == [kind |-> "list", items |-> items]
IsAbsent(v) == v.kind = "absent"
NoKey == [kind |-> "absent"]

\* the generator flatten_schema, as the sequence it yields
RECURSIVE flatten_schema(_)
RECURSIVE flatten_items(_, _)
flatten_items(items, i) ==
    IF i > Len(items) THEN <<>>
    ELSE flatten_schema(items[i]) \o flatten_items(items, i + 1)
flatten_schema(schema_item) ==
    CASE schema_item.kind = "list" -> flatten_items(schema_item.items, 1)
      [] schema_item.kind = "dict" ->
            (IF ~IsAbsent(schema_item.graph) THEN flatten_schema(schema_item.graph)
             ELSE <<>>) \o <<schema_item>>
      [] OTHER -> <<>>

\* the loop over an "@type" list: "True" on a match, Raised at an element that
\* has no .lower() (AttributeError), "False" at the end
RECURSIVE type_list_matches(_, _, _)
type_list_matches(atype, schema_type, i) ==
    IF i > Len(atype) THEN "False"
    ELSE IF atype[i].kind # "str" THEN Raised
    ELSE IF Lower(atype[i].v) = Lower(schema_type) THEN "True"
    ELSE type_list_matches(atype, schema_type, i + 1)

\* schema_implemented over the items flatten_schema yields
RECURSIVE schema_scan(_, _, _)
schema_scan(items, schema_type, i) ==
    IF i > Len(items) THEN "False"
    ELSE LET atype == items[i].type IN
         IF atype.kind = "str"
         THEN IF Lower(atype.v) = Lower(schema_type) THEN "True"
              ELSE schema_scan(items, schema_type, i + 1)
         ELSE IF atype.kind = "list"
         THEN LET m == type_list_matches(atype.items, schema_type, 1) IN
              IF m = "False" THEN schema_scan(items, schema_type, i + 1) ELSE m
         ELSE schema_scan(items, schema_type, i + 1)

\* "True", "False" or Raised
schema_implemented(schema_data, schema_type) ==
    schema_scan(flatten_schema(schema_data), schema_type, 1)

SchemaRow(label, yes) ==
    IF yes THEN [schema |-> label, implemented |-> "Yes", remarks |-> "-"]
    ELSE [schema |-> label, implemented |-> "No", remarks |-> "Need to be Implemented"]

\* app.py build_schema_table: the rows, or Exc when schema_implemented raises
RECURSIVE App_schema_rows(_, _, _)
App_schema_rows(schema_data, i, results) ==
    IF i > Len(App_SCHEMA_CHECKLIST) THEN Ok(results)
    ELSE LET label == App_SCHEMA_CHECKLIST[i][1]
             stype == App_SCHEMA_CHECKLIST[i][2]
             impl  == schema_implemented(schema_data, stype)
         IN  IF impl = Raised THEN Exc
             ELSE App_schema_rows(schema_data, i + 1,
                                  Append(results, SchemaRow(label, impl = "True")))

App_build_schema_table(schema_data) == App_schema_rows(schema_data, 1, <<>>)

\* utils.fetch_page_content: a fetched page is [ok |-> TRUE, names |-> the
\* checklist type names that occur in its text]; a failed request gives None,
\* here [ok |-> FALSE, names |-> {}]
fetch_page_content(page) ==
    IF page.ok THEN page ELSE [ok |-> FALSE, names |-> {}]

\* utils.py build_schema_table: the rows, or Exc
RECURSIVE schema_rows(_, _, _, _)
schema_rows(schema_data, content, i, results) ==
    IF i > Len(SCHEMA_CHECKLIST) THEN Ok(results)
    ELSE LET label == SCHEMA_CHECKLIST[i][1]
             stype == SCHEMA_CHECKLIST[i][2]
             impl  == schema_implemented(schema_data, stype)
         IN  IF impl = Raised THEN Exc
             ELSE schema_rows(schema_data, content, i + 1,
                              Append(results,
                                     SchemaRow(label, impl = "True" \/ stype \in content)))

build_schema_table(schema_data, page) ==
    LET got == fetch_page_content(page)
        content == IF ~got.ok THEN {} ELSE got.names
    IN  schema_rows(schema_data, content, 1, <<>>)

(***************************************************************************)
(* Inputs of the schema check.                                             *)
(***************************************************************************)
TypeNames == {"FAQPage", "faqpage", "Thing"}
TypeElems == {[kind |-> "str", v |-> t] : t \in TypeNames} \cup {[kind |-> "num"]}
TypeValues ==
    {NoKey, [kind |-> "num"]}
    \cup {[kind |-> "str", v |-> t] : t \in TypeNames}
    \cup {[kind |-> "list", items |-> l] : l \in SeqsUpTo(TypeElems, MaxTypeList)}
\* values without "@graph"
JsonLeaves == {JsonScalar} \cup {JsonDict(t, NoKey) : t \in TypeValues}
\* values whose "@graph" is a leaf or a list of one leaf
JsonGraphs ==
    {JsonDict(t, g) : t \in {NoKey, [kind |-> "str", v |-> "Thing"],
                            [kind |-> "str", v |-> "FAQPage"]},
                      g \in JsonLeaves \cup {JsonList(<<v>>) : v \in JsonLeaves}}
JsonValues == JsonLeaves \cup JsonGraphs \cup {JsonList(<<v>>) : v \in JsonLeaves}
\* schema_data: one parsed value for each ld+json script that parsed
SchemaInputs == {JsonList(l) : l \in SeqsUpTo(JsonValues, MaxScripts)}
FetchedPages ==
    {[ok |-> FALSE, names |-> {}], [ok |-> TRUE, names |-> {}],
     [ok |-> TRUE, names |-> {"FAQPage"}], [ok |-> TRUE, names |-> {"articleBody", "HowTo"}]}

(***************************************************************************)
(* Every action of a helper's own specification leaves the run alone, and  *)
(* every action of the run leaves the call frame alone.                    *)
(***************************************************************************)
RunIdle ==
    /\ pc = "idle" /\ active = None /\ started = <<>> /\ returned = <<>>
    /\ SERPAPI_KEY = "" /\ serp_data = None /\ content_data = None
    /\ linkedin_results = <<>> /\ reddit_results = <<>>
    /\ ranked_linkedin_titles = <<>> /\ ranked_reddit_titles = <<>>
    /\ youtube_results = <<>> /\ pdf_path = None /\ downloads = <<>>
    /\ reports = <<>>

CallIdle == fn = None /\ args = None /\ locals = <<>> /\ ret = Ok(None)

(***************************************************************************)
(* build_schema_table called on its own.                                   *)
(***************************************************************************)
InitSchema ==
    /\ RunIdle
    /\ fn = None
    /\ args \in [schema_data : SchemaInputs, page : FetchedPages]
    /\ ret = Ok(None)
    /\ locals = <<>>

CallAppBuildSchemaTable ==
    /\ fn = None
    /\ fn' = "app.build_schema_table"
    /\ ret' = App_build_schema_table(args.schema_data)
    /\ UNCHANGED <<args, locals, runVars>>

CallBuildSchemaTable ==
    /\ fn = None
    /\ fn' = "utils.build_schema_table"
    /\ ret' = build_schema_table(args.schema_data, args.page)
    /\ UNCHANGED <<args, locals, runVars>>

NextSchema == CallAppBuildSchemaTable \/ CallBuildSchemaTable

SpecSchema == InitSchema /\ [][NextSchema]_vars

SchemaLabels == <<"Breadcrumbs", "FAQ", "Article", "Video", "Organization", "How-to">>

IsSchemaTable(rows) ==
    /\ Len(rows) = 6
    /\ \A i \in 1..6 :
        /\ rows[i].schema = SchemaLabels[i]
        /\ rows[i].implemented \in {"Yes", "No"}
        /\ (rows[i].remarks = "-") <=> (rows[i].implemented = "Yes")
        /\ (rows[i].remarks = "Need to be Implemented") <=> (rows[i].implemented = "No")

\* C2: for every schema_data, build_schema_table (app.py and utils.py) returns
\* exactly six rows labelled Breadcrumbs, FAQ, Article, Video, Organization,
\* How-to in that order, each with implemented in {"Yes","No"}, remarks "-"
\* exactly when "Yes" and "Need to be Implemented" exactly when "No".
C2_SixRowsForEveryInput ==
    fn \in {"app.build_schema_table", "utils.build_schema_table"} =>
        /\ ~ret.raised
        /\ IsSchemaTable(ret.value)

(***************************************************************************)
(* The parsed page (BeautifulSoup).  A page is the sequence of its         *)
(* elements in document order; an element is                               *)
(*   [tag, parent, text, src, alt]                                         *)
(* where parent is the index of the enclosing element (0: the document),   *)
(* text is the string directly inside the element, placed at its start     *)
(* ("": none, "faq": a string containing "faq" in some case, "plain": any  *)
(* other string), and src / alt are the attributes of an <img>.            *)
(***************************************************************************)
\* most elements of a page
MaxNodes == 4

\* an element without its place: a tag with its own string, or an <img>
Kind(tag, text) == [tag |-> tag, text |-> text, src |-> "", alt |-> ""]
Img(src, alt) == [tag |-> "img", text |-> "", src |-> src, alt |-> alt]

Node(kind, parent) ==
    [tag |-> kind.tag, parent |-> parent, text |-> kind.text, src |-> kind.src, alt |-> kind.alt]

\* the ancestors of element i
RECURSIVE Ancestors(_, _)
Ancestors(page, i) ==
    IF i = 0 \/ page[i].parent = 0 THEN {}
    ELSE {page[i].parent} \cup Ancestors(page, page[i].parent)

\* element i and its descendants
Subtree(page, i) == {j \in 1..Len(page) : j = i \/ i \in Ancestors(page, j)}

\* the elements whose own string is part of el.get_text()
TextNodes(page, i) == {j \in Subtree(page, i) : page[j].text # ""}

\* "faq" in el.get_text().lower()
HasFaqText(page, i) == \E j \in Subtree(page, i) : page[j].text = "faq"

\* soup.find(tags): the first element with one of the tags, 0 for None
find(page, tags, within) ==
    LET hits == {j \in within : page[j].tag \in tags}
    IN  IF hits = {} THEN 0 ELSE CHOOSE j \in hits : \A k \in hits : j <= k

\* Tag.__eq__: same name, attributes and contents
SameElement(page, i, j) ==
    LET si == Subtree(page, i)
        sj == Subtree(page, j)
    IN  /\ Cardinality(si) = Cardinality(sj)
        /\ \A k \in si :
            LET m == j + (k - i) IN
            /\ m \in sj
            /\ page[k].tag = page[m].tag /\ page[k].text = page[m].text
            /\ page[k].src = page[m].src /\ page[k].alt = page[m].alt
            /\ (k # i => page[m].parent = j + (page[k].parent - i))

\* the elements after i with the same parent, in order (el.next_siblings)
next_siblings(page, i) ==
    {j \in (i + 1)..Len(page) : page[j].parent = page[i].parent}

HeaderTags == {"h1", "h2", "h3", "h4", "h5", "h6"}
TextTags == {"p", "div", "span", "li", "dt", "dd", "section", "article"}

\* the walk over next_element from the first H1 until an element equal to
\* the FAQ header, or the end of the document
RECURSIVE walk_to_faq(_, _, _, _)
walk_to_faq(page, current, faq_section, content_elements) ==
    IF current > Len(page) \/ SameElement(page, current, faq_section)
    THEN content_elements
    ELSE walk_to_faq(page, current + 1, faq_section, Append(content_elements, current))

\* the first next sibling of the FAQ header that is a dl/ul/div/section
\* holding a dt/li/h3/h4/strong; 0 for None
faq_container(page, faq_section) ==
    LET cands == {j \in next_siblings(page, faq_section) :
                     /\ page[j].tag \in {"dl", "ul", "div", "section"}
                     /\ find(page, {"dt", "li", "h3", "h4", "strong"},
                             Subtree(page, j) \ {j}) # 0}
    IN  IF cands = {} THEN 0 ELSE CHOOSE j \in cands : \A k \in cands : j <= k

\* the elements of a set of siblings, in document order
RECURSIVE InOrder(_, _)
InOrder(S, n) ==
    IF n = 0 THEN <<>>
    ELSE InOrder(S, n - 1) \o (IF n \in S THEN <<n>> ELSE <<>>)

\* the lines extract_full_page_content writes for the collected elements
RECURSIVE page_content(_, _, _)
page_content(page, content_elements, i) ==
    IF i > Len(content_elements) THEN <<>>
    ELSE LET el == content_elements[i] IN
         (IF page[el].tag \in HeaderTags THEN <<[el |-> el, as |-> "header"]>>
          ELSE IF page[el].tag \in TextTags /\ TextNodes(page, el) # {}
               THEN <<[el |-> el, as |-> "text"]>>
          ELSE <<>>) \o page_content(page, content_elements, i + 1)

first_faq_header(page) ==
    LET hits == {j \in 1..Len(page) : page[j].tag \in {"h2", "h3", "h4"} /\ HasFaqText(page, j)}
    IN  IF hits = {} THEN 0 ELSE CHOOSE j \in hits : \A k \in hits : j <= k

\* utils.extract_full_page_content: [no_h1, lines]; a line is the element it
\* was written for, whose get_text() it holds
extract_full_page_content(page) ==
    LET h1 == find(page, {"h1"}, 1..Len(page))
        faq_section == first_faq_header(page)
    IN  IF h1 = 0 THEN [no_h1 |-> TRUE, lines |-> <<>>]
        ELSE IF faq_section # 0
        THEN LET between == walk_to_faq(page, h1, faq_section, <<>>)
                 faq_content == faq_container(page, faq_section)
                 content_elements ==
                     Append(between, faq_section)
                     \o (IF faq_content # 0 THEN <<faq_content>> ELSE <<>>)
             IN  [no_h1 |-> FALSE, lines |-> page_content(page, content_elements, 1)]
        ELSE LET content_elements == <<h1>> \o InOrder(next_siblings(page, h1), Len(page))
             IN  [no_h1 |-> FALSE, lines |-> page_content(page, content_elements, 1)]

(***************************************************************************)
(* Pages: every tree of at most MaxNodes elements of the kinds below, in   *)
(* which only a div encloses other elements.                               *)
(***************************************************************************)
PageKinds ==
    {Kind("h1", "plain"), Kind("h2", "plain"), Kind("h2", "faq"), Kind("div", ""),
     Kind("p", "plain"), Kind("li", "plain")}

\* where the next element can be put: in the document, or in an open div
OpenParents(page) ==
    {0} \cup {j \in {Len(page)} \cup Ancestors(page, Len(page)) :
                 j # 0 /\ page[j].tag = "div"}

RECURSIVE PagesOfLen(_, _)
PagesOfLen(kinds, n) ==
    IF n = 0 THEN {<<>>}
    ELSE {Append(pg, Node(k, par)) :
            pg \in PagesOfLen(kinds, n - 1), k \in kinds, par \in 0..(n - 1)}

WellFormed(page) ==
    \A i \in 1..Len(page) : page[i].parent \in OpenParents(SubSeq(page, 1, i - 1))

PagesUpTo(kinds, n) ==
    UNION {{pg \in PagesOfLen(kinds, m) : WellFormed(pg)} : m \in 0..n}

(***************************************************************************)
(* extract_full_page_content called on its own.                            *)
(***************************************************************************)
InitPage ==
    /\ RunIdle
    /\ fn = None
    /\ args \in [page : PagesUpTo(PageKinds, MaxNodes)]
    /\ ret = Ok(None)
    /\ locals = <<>>

CallExtractFullPageContent ==
    /\ fn = None
    /\ fn' = "utils.extract_full_page_content"
    /\ ret' = Ok(extract_full_page_content(args.page))
    /\ UNCHANGED <<args, locals, runVars>>

NextPage == CallExtractFullPageContent

SpecPage == InitPage /\ [][NextPage]_vars

\* the elements whose text the returned content holds
ContentTextNodes(page, out) ==
    UNION {TextNodes(page, out.lines[i].el) : i \in 1..Len(out.lines)}

\* C10: extract_full_page_content returns "No H1 found on page." when the page
\* has no H1; otherwise the output holds no text of an element before the
\* first H1, and when a FAQ header (h2/h3/h4 with "faq" in its text) exists it
\* holds no text of an element after that header other than the header
\* itself and its FAQ container.
C10_H1ToFaqOnly ==
    fn = "utils.extract_full_page_content" =>
        LET page == args.page
            out == ret.value
            h1 == find(page, {"h1"}, 1..Len(page))
            faq == first_faq_header(page)
            kept == Subtree(page, faq) \cup
                    (IF faq_container(page, faq) = 0 THEN {}
                     ELSE Subtree(page, faq_container(page, faq)))
        IN  /\ out.no_h1 <=> (h1 = 0)
            /\ h1 # 0 => \A j \in ContentTextNodes(page, out) : j >= h1
            /\ (h1 # 0 /\ faq # 0) =>
                  \A j \in ContentTextNodes(page, out) : j > faq => j \in kept

(***************************************************************************)
(* Site searches.  The response of the search API is                       *)
(*   [has_organic |-> whether it holds "organic_results",                  *)
(*    organic_results |-> the sequence of its results]                     *)
(* and a result is [title, link, displayed_link, source, snippet,          *)
(* key_moments]; a string key it does not hold is Absent.  "source" is the *)
(* sequence of the parts that the separator splits it into (<<>> when the  *)
(* key is not held); "key_moments" is [kind |-> "absent"], [kind |-> "str"]*)
(* (not a list) or [kind |-> "list", items |-> <sequence of [time, title]>]*)
(***************************************************************************)
\* longest organic_results list of a response
MaxHits == 3
\* largest limit_max
MaxLimit == 3

\* dict.get(key, default)
Get(v, default) == IF v = Absent THEN default ELSE v

\* the key_moments text of a YouTube result
key_moments_text(key_moments_raw) ==
    IF key_moments_raw.kind = "list" /\ key_moments_raw.items # <<>>
    THEN [k \in 1..Len(key_moments_raw.items) |->
             <<"*", key_moments_raw.items[k].time, "-", key_moments_raw.items[k].title>>]
    ELSE <<"Key Moments not found for video.">>

\* source_raw.split(sep)[-1].strip() if sep in source_raw else source_raw
source_processed(source_raw) ==
    IF Len(source_raw) > 1 THEN source_raw[Len(source_raw)] ELSE source_raw[1]

\* the dict appended for one organic result
social_entry(result) ==
    [title |-> Get(result.title, "No Title"), link |-> Get(result.link, "")]

youtube_entry(result) ==
    [title |-> Get(result.title, "No Title"),
     link |-> Get(result.link, ""),
     displayed_link |-> Get(result.displayed_link, ""),
     source |-> source_processed(IF result.source = <<>> THEN <<"">> ELSE result.source),
     snippet |-> Get(result.snippet, ""),
     key_moments |-> key_moments_text(result.key_moments)]

\* the loop over data["organic_results"]: append, then break at the limit
RECURSIVE collect_results(_, _, _, _, _)
collect_results(kind, organic_results, i, results, limit_max) ==
    IF i > Len(organic_results) THEN results
    ELSE LET entry == IF kind = "youtube" THEN youtube_entry(organic_results[i])
                      ELSE social_entry(organic_results[i])
             appended == Append(results, entry)
         IN  IF Len(appended) >= limit_max THEN appended
             ELSE collect_results(kind, organic_results, i + 1, appended, limit_max)

results_of(kind, data, limit_max) ==
    IF ~data.has_organic THEN <<>>
    ELSE collect_results(kind, data.organic_results, 1, <<>>, limit_max)

\* utils.py: an exception of the search gives []
get_social_results(search, limit_max) ==
    IF search.fails THEN Ok(<<>>) ELSE Ok(results_of("social", search.data, limit_max))

get_youtube_results(search, limit_max) ==
    IF search.fails THEN Ok(<<>>) ELSE Ok(results_of("youtube", search.data, limit_max))

\* app.py: an exception of the request leaves the function
App_get_social_results(search, limit_max) ==
    IF search.fails THEN Exc ELSE Ok(results_of("social", search.data, limit_max))

App_get_youtube_results(search, limit_max) ==
    IF search.fails THEN Exc ELSE Ok(results_of("youtube", search.data, limit_max))

Hit(title, link, source, km) ==
    [title |-> title, link |-> link, displayed_link |-> Absent, source |-> source,
     snippet |-> Absent, key_moments |-> km]

Hits ==
    {Hit("t1", "l1", <<"YouTube", "eFax">>,
         [kind |-> "list", items |-> <<[time |-> "0:10", title |-> "Intro"]>>]),
     Hit("t2", "l2", <<>>, [kind |-> "list", items |-> <<>>]),
     Hit(Absent, Absent, <<"YouTube">>, [kind |-> "absent"])}

NoOrganic == [has_organic |-> FALSE, organic_results |-> <<>>]

SearchData(hits, n) ==
    {NoOrganic} \cup {[has_organic |-> TRUE, organic_results |-> o] : o \in SeqsUpTo(hits, n)}

Searches(hits, n) ==
    {[fails |-> TRUE, data |-> NoOrganic]}
    \cup {[fails |-> FALSE, data |-> d] : d \in SearchData(hits, n)}

(***************************************************************************)
(* get_social_results and get_youtube_results called on their own.         *)
(***************************************************************************)
InitSocial ==
    /\ RunIdle
    /\ fn = None
    /\ args \in [search : Searches(Hits, MaxHits), limit_max : 0..MaxLimit]
    /\ ret = Ok(None)
    /\ locals = <<>>

CallGetSocialResults ==
    /\ fn = None
    /\ fn' = "utils.get_social_results"
    /\ ret' = get_social_results(args.search, args.limit_max)
    /\ UNCHANGED <<args, locals, runVars>>

CallGetYoutubeResults ==
    /\ fn = None
    /\ fn' = "utils.get_youtube_results"
    /\ ret' = get_youtube_results(args.search, args.limit_max)
    /\ UNCHANGED <<args, locals, runVars>>

CallAppGetSocialResults ==
    /\ fn = None
    /\ fn' = "app.get_social_results"
    /\ ret' = App_get_social_results(args.search, args.limit_max)
    /\ UNCHANGED <<args, locals, runVars>>

CallAppGetYoutubeResults ==
    /\ fn = None
    /\ fn' = "app.get_youtube_results"
    /\ ret' = App_get_youtube_results(args.search, args.limit_max)
    /\ UNCHANGED <<args, locals, runVars>>

NextSocial ==
    \/ CallGetSocialResults
    \/ CallGetYoutubeResults
    \/ CallAppGetSocialResults
    \/ CallAppGetYoutubeResults

SpecSocial == InitSocial /\ [][NextSocial]_vars

SocialFns == {"utils.get_social_results", "app.get_social_results"}
YoutubeFns == {"utils.get_youtube_results", "app.get_youtube_results"}

\* C6: get_social_results and get_youtube_results return at most limit_max
\* results for every limit_max >= 0 and every response; the results are the
\* first organic results of the response, in response order; a failed search
\* (utils.py) yields the empty list.
C6_AtMostLimitMax ==
    (fn \in SocialFns \cup YoutubeFns /\ ~ret.raised) =>
        LET organic == IF args.search.fails THEN <<>>
                       ELSE args.search.data.organic_results
        IN  /\ Len(ret.value) <= args.limit_max
            /\ Len(ret.value) <= Len(organic)
            /\ \A i \in 1..Len(ret.value) :
                  ret.value[i] = IF fn \in YoutubeFns THEN youtube_entry(organic[i])
                                 ELSE social_entry(organic[i])
            /\ (args.search.fails => ret.value = <<>>)

(***************************************************************************)
(* Semantic ranking.  sim[t] is the cosine similarity of title t to the    *)
(* keyword, in hundredths; the sentence-transformer model either computes  *)
(* it or raises (it cannot be loaded, or an encoding fails).               *)
(***************************************************************************)
\* most titles ranked in one call
MaxTitles == 3

TitleNames == {"t1", "t2"}
Scores == {70, 75, 80, 90}
Thresholds == {75, 90}
\* the score the fallback of utils.py gives every title: 0.8
FallbackScore == 80

\* np.argsort(cosine_scores): the orders that sort the scores ascending (the
\* order of equal scores is the sort's choice)
argsort(cosine_scores) ==
    LET n == Len(cosine_scores) IN
    {order \in [1..n -> 1..n] :
        /\ \A i, j \in 1..n : i # j => order[i] # order[j]
        /\ \A i, j \in 1..n : i < j => cosine_scores[order[i]] <= cosine_scores[order[j]]}

\* [(titles[i], float(cosine_scores[i])) for i in order[::-1]]
ranked_titles(titles, cosine_scores, order) ==
    LET n == Len(titles) IN
    [k \in 1..n |-> <<titles[order[n + 1 - k]], cosine_scores[order[n + 1 - k]]>>]

\* [item for item in ranked if item[1] > threshold]
filter_by_threshold(ranked, threshold) ==
    SelectIdx(ranked, [k \in 1..Len(ranked) |-> ranked[k][2] > threshold], 1)

\* utils.py rank_titles_by_semantic_similarity
rank_titles_by_semantic_similarity(titles, sim, threshold, model_raises, order) ==
    IF titles = <<>> THEN Ok(<<>>)
    ELSE IF model_raises
    THEN Ok([k \in 1..Len(titles) |-> <<titles[k], FallbackScore>>])
    ELSE LET cosine_scores == [k \in 1..Len(titles) |-> sim[titles[k]]]
         IN  Ok(filter_by_threshold(ranked_titles(titles, cosine_scores, order), threshold))

\* app.py rank_titles_by_semantic_similarity: no guard, no fallback
App_rank_titles_by_semantic_similarity(titles, sim, threshold, model_raises, order) ==
    IF model_raises THEN Exc
    ELSE LET cosine_scores == [k \in 1..Len(titles) |-> sim[titles[k]]]
         IN  Ok(filter_by_threshold(ranked_titles(titles, cosine_scores, order), threshold))

(***************************************************************************)
(* rank_titles_by_semantic_similarity called on its own.                   *)
(***************************************************************************)
InitRank ==
    /\ RunIdle
    /\ fn = None
    /\ args \in [titles : SeqsUpTo(TitleNames, MaxTitles), sim : [TitleNames -> Scores],
                 threshold : Thresholds, model_raises : BOOLEAN]
    /\ ret = Ok(None)
    /\ locals = <<>>

CallRankTitles ==
    /\ fn = None
    /\ \E order \in argsort([k \in 1..Len(args.titles) |-> args.sim[args.titles[k]]]) :
          ret' = rank_titles_by_semantic_similarity(args.titles, args.sim, args.threshold,
                                                    args.model_raises, order)
    /\ fn' = "utils.rank_titles_by_semantic_similarity"
    /\ UNCHANGED <<args, locals, runVars>>

CallAppRankTitles ==
    /\ fn = None
    /\ \E order \in argsort([k \in 1..Len(args.titles) |-> args.sim[args.titles[k]]]) :
          ret' = App_rank_titles_by_semantic_similarity(args.titles, args.sim, args.threshold,
                                                        args.model_raises, order)
    /\ fn' = "app.rank_titles_by_semantic_similarity"
    /\ UNCHANGED <<args, locals, runVars>>

NextRank == CallRankTitles \/ CallAppRankTitles

SpecRank == InitRank /\ [][NextRank]_vars

RankFns == {"utils.rank_titles_by_semantic_similarity", "app.rank_titles_by_semantic_similarity"}

\* the number of positions of a sequence that hold x
Count(seq, x) == Cardinality({k \in 1..Len(seq) : seq[k] = x})

\* C4: rank_titles_by_semantic_similarity returns (title, score) pairs sorted
\* by score in non-increasing order, every returned title an element of the
\* input list and paired with its own similarity score; an empty titles list
\* gives an empty result (utils.py).
C4_SortedWithOwnScores ==
    (fn \in RankFns /\ ~ret.raised) =>
        /\ \A i, j \in 1..Len(ret.value) : i < j => ret.value[i][2] >= ret.value[j][2]
        /\ \A i \in 1..Len(ret.value) :
              /\ ret.value[i][1] \in Range(args.titles)
              /\ ret.value[i][2] = args.sim[ret.value[i][1]]
        /\ (fn = "utils.rank_titles_by_semantic_similarity" /\ args.titles = <<>>)
              => ret.value = <<>>

\* C5: the threshold is the minimum similarity score to include: a title is
\* in the result if and only if its similarity score is at least the
\* threshold, for every threshold and on every path through the function
\* (the path taken when the model raises included).
C5_ThresholdIsMinimum ==
    (fn \in RankFns /\ ~ret.raised) =>
        \A t \in Range(args.titles) :
            (\E i \in 1..Len(ret.value) : ret.value[i][1] = t)
                <=> (args.sim[t] >= args.threshold)

(***************************************************************************)
(* The SERP response for the keyword: the dict the search client returns.  *)
(*   [has_organic, organic_results, has_pagination, ai_overview]           *)
(* organic_results is a sequence of [link |-> <url, or Absent>], and       *)
(* ai_overview is [present, has_references, references] with references a  *)
(* sequence of [link |-> <url, or Absent>].                                *)
(***************************************************************************)
Links == {"https://www.efax.com/fax#top", "https://other.com/page", Absent}

NoAiOverview == [present |-> FALSE, has_references |-> FALSE, references |-> <<>>]

AiOverviews(links, n) ==
    {NoAiOverview, [present |-> TRUE, has_references |-> FALSE, references |-> <<>>]}
    \cup {[present |-> TRUE, has_references |-> TRUE, references |-> r] :
             r \in SeqsUpTo({[link |-> l] : l \in links}, n)}

SerpDicts(links, n, paginations) ==
    LET results == SeqsUpTo({[link |-> l] : l \in links}, n) IN
    {[has_organic |-> FALSE, organic_results |-> <<>>, has_pagination |-> hp,
      ai_overview |-> ai] : hp \in paginations, ai \in AiOverviews(links, n)}
    \cup {[has_organic |-> TRUE, organic_results |-> o, has_pagination |-> hp,
           ai_overview |-> ai] :
              o \in results, hp \in paginations, ai \in AiOverviews(links, n)}

\* {"organic_results": [], "pagination": {}}
EmptySerp ==
    [has_organic |-> TRUE, organic_results |-> <<>>, has_pagination |-> TRUE,
     ai_overview |-> NoAiOverview]

get_serp_results_uncaught(client) ==
    IF client.fails THEN Exc ELSE Ok(client.result)

\* utils.get_serp_results: search.get_dict(), or the empty result when the
\* client raises
get_serp_results(client) ==
    IF client.fails THEN Ok(EmptySerp) ELSE Ok(client.result)

\* utils.get_50serp_results: the same with start 0 and num 50
get_50serp_results(client) ==
    IF client.fails THEN Ok(EmptySerp) ELSE Ok(client.result)

\* app.py get_serp_results: requests.get(...).json(), nothing caught
App_get_serp_results(client) ==
    IF client.fails THEN Exc ELSE Ok(client.result)

Clients(links, n, paginations) ==
    {[fails |-> TRUE, result |-> EmptySerp]}
    \cup {[fails |-> FALSE, result |-> d] : d \in SerpDicts(links, n, paginations)}

(***************************************************************************)
(* get_serp_results and get_50serp_results called on their own.            *)
(***************************************************************************)
InitSerp ==
    /\ RunIdle
    /\ fn = None
    /\ args \in [client : Clients(Links, MaxOrganic, BOOLEAN)]
    /\ ret = Ok(None)
    /\ locals = <<>>

CallGetSerpResults ==
    /\ fn = None
    /\ fn' = "utils.get_serp_results"
    /\ ret' = get_serp_results(args.client)
    /\ UNCHANGED <<args, locals, runVars>>

CallGet50SerpResults ==
    /\ fn = None
    /\ fn' = "utils.get_50serp_results"
    /\ ret' = get_50serp_results(args.client)
    /\ UNCHANGED <<args, locals, runVars>>

NextSerp == CallGetSerpResults \/ CallGet50SerpResults

SpecSerp == InitSerp /\ [][NextSerp]_vars

\* C8: utils.get_serp_results and utils.get_50serp_results never raise: when
\* the search client fails they return exactly
\* {"organic_results": [], "pagination": {}}, and otherwise the client's
\* result dict unchanged.
C8_SerpNeverRaises ==
    fn \in {"utils.get_serp_results", "utils.get_50serp_results"} =>
        /\ ~ret.raised
        /\ args.client.fails => ret.value = EmptySerp
        /\ ~args.client.fails => ret.value = args.client.result

C8_Witness ==
    /\ fn = "utils.get_50serp_results"
    /\ args.client.fails
    /\ ret.value = EmptySerp

(***************************************************************************)
(* report_generator.generate_pdf_report.  Its environment:                 *)
(*   render_ok        the template renders the data                        *)
(*   which_found      shutil.which("wkhtmltopdf") finds the program        *)
(*   existing_common  the common_paths (1..4) that exist                   *)
(*   configuration_ok pdfkit.configuration accepts the path                *)
(*   convert_ok       pdfkit.from_string writes the PDF                    *)
(* A returned path is [suffix, holds]: the suffix of the temporary file    *)
(* and what was written to it.                                             *)
(***************************************************************************)
CommonPaths == 1..4

\* the first of common_paths that exists, 0 for none
first_common_path(existing_common) ==
    IF existing_common = {} THEN 0
    ELSE CHOOSE q \in existing_common : \A o \in existing_common : q <= o

\* the except branch: the rendered HTML is written to a .html temporary file
html_fallback == Ok([suffix |-> ".html", holds |-> "html"])

\* with NamedTemporaryFile(suffix=".pdf"): pdfkit.from_string(...); return name
convert_to_pdf(convert_ok) ==
    IF convert_ok THEN Ok([suffix |-> ".pdf", holds |-> "pdf"]) ELSE html_fallback

Report_generate_pdf_report(env) ==
    IF ~env.render_ok THEN Exc
    ELSE LET wkhtmltopdf_path ==
                 IF env.which_found THEN "PATH"
                 ELSE IF first_common_path(env.existing_common) # 0 THEN "common"
                 ELSE None
         IN  IF wkhtmltopdf_path = None THEN convert_to_pdf(env.convert_ok)
             ELSE IF ~env.configuration_ok THEN Exc
             ELSE convert_to_pdf(env.convert_ok)

PdfEnvs ==
    [render_ok : BOOLEAN, which_found : BOOLEAN, existing_common : SUBSET CommonPaths,
     configuration_ok : BOOLEAN, convert_ok : BOOLEAN]

InitPdf ==
    /\ RunIdle
    /\ fn = None
    /\ args \in [env : PdfEnvs]
    /\ ret = Ok(None)
    /\ locals = <<>>

CallReportGeneratePdfReport ==
    /\ fn = None
    /\ fn' = "report_generator.generate_pdf_report"
    /\ ret' = Report_generate_pdf_report(args.env)
    /\ UNCHANGED <<args, locals, runVars>>

NextPdf == CallReportGeneratePdfReport

SpecPdf == InitPdf /\ [][NextPdf]_vars

\* C7: whenever report_generator.generate_pdf_report returns, the returned
\* string is the path of the generated PDF file (a file with suffix .pdf
\* that holds the converted report).
C7_ReturnsPdfPath ==
    (fn = "report_generator.generate_pdf_report" /\ ~ret.raised) =>
        ret.value.suffix = ".pdf" /\ ret.value.holds = "pdf"

(***************************************************************************)
(* utils.process_links_for_template.  The text is a sequence of tokens:    *)
(*   "OPEN_S"  <a href='            "OPEN_D"  <a href="                    *)
(*   "MID"     ' target='_blank'>   "END_S"   '>        "END_D"  ">        *)
(*   "CLOSE"   </a>                 "u"       a character of a url or text *)
(*   "NL"      a newline                                                   *)
(* The literals of the regular expression are whole tokens, and no literal *)
(* occurs inside or across the other tokens.                               *)
(***************************************************************************)
\* longest text, in tokens
MaxTokens == 5

Tokens == {"OPEN_S", "OPEN_D", "MID", "END_S", "END_D", "CLOSE", "u", "NL"}

\* "." matches every character but a newline
NoNewline(text, a, b) == \A m \in a..b : text[m] # "NL"

\* the matches of <a href='(.*?)' target='_blank'>(.*?)</a> that start at i,
\* as <<j, k>>: the places of the two later literals
matches_at(text, i) ==
    IF text[i] # "OPEN_S" THEN {}
    ELSE {jk \in ((i + 1)..Len(text)) \X ((i + 2)..Len(text)) :
            /\ jk[1] < jk[2]
            /\ text[jk[1]] = "MID" /\ NoNewline(text, i + 1, jk[1] - 1)
            /\ text[jk[2]] = "CLOSE" /\ NoNewline(text, jk[1] + 1, jk[2] - 1)}

\* the match the two lazy groups take: the shortest first group, then the
\* shortest second group
lazy_match(text, i) ==
    CHOOSE jk \in matches_at(text, i) :
        \A o \in matches_at(text, i) :
            jk[1] < o[1] \/ (jk[1] = o[1] /\ jk[2] <= o[2])

\* re.findall from position pos: leftmost matches that do not overlap
RECURSIVE findall(_, _)
findall(text, pos) ==
    IF pos > Len(text) THEN <<>>
    ELSE IF matches_at(text, pos) = {} THEN findall(text, pos + 1)
    ELSE LET jk == lazy_match(text, pos) IN
         <<[url |-> SubSeq(text, pos + 1, jk[1] - 1),
            text |-> SubSeq(text, jk[1] + 1, jk[2] - 1)]>>
         \o findall(text, jk[2] + 1)

\* "<a href=" in text
has_anchor_start(text) == \E i \in 1..Len(text) : text[i] \in {"OPEN_S", "OPEN_D"}

process_links_for_template(text) ==
    IF text = <<>> \/ ~has_anchor_start(text) THEN <<>> ELSE findall(text, 1)

\* report_generator.generate_pdf_report.urlize_links: links or [("", text)]
urlize_links(text) ==
    LET links == process_links_for_template(text)
    IN  IF links # <<>> THEN links ELSE <<[url |-> <<>>, text |-> text]>>

InitLinks ==
    /\ RunIdle
    /\ fn = None
    /\ args \in [text : SeqsUpTo(Tokens, MaxTokens)]
    /\ ret = Ok(None)
    /\ locals = <<>>

CallProcessLinksForTemplate ==
    /\ fn = None
    /\ fn' = "utils.process_links_for_template"
    /\ ret' = Ok(process_links_for_template(args.text))
    /\ UNCHANGED <<args, locals, runVars>>

CallUrlizeLinks ==
    /\ fn = None
    /\ fn' = "report_generator.urlize_links"
    /\ ret' = Ok(urlize_links(args.text))
    /\ UNCHANGED <<args, locals, runVars>>

NextLinks == CallProcessLinksForTemplate \/ CallUrlizeLinks

SpecLinks == InitLinks /\ [][NextLinks]_vars

\* the anchor elements of a text: <a href=QUOTE url QUOTE ...> text </a>,
\* as <<i, j, k>>: the places of the start tag's two ends and of the end tag
AnchorElements(text) ==
    {e \in (1..Len(text)) \X (1..Len(text)) \X (1..Len(text)) :
        /\ e[1] < e[2] /\ e[2] < e[3]
        /\ \/ text[e[1]] = "OPEN_S" /\ text[e[2]] \in {"MID", "END_S"}
           \/ text[e[1]] = "OPEN_D" /\ text[e[2]] = "END_D"
        /\ text[e[3]] = "CLOSE"
        /\ \A m \in ((e[1] + 1)..(e[2] - 1)) \cup ((e[2] + 1)..(e[3] - 1)) : text[m] = "u"}

\* the (url, text) tuples of the anchor elements, in order of appearance
RECURSIVE AnchorTuples(_, _)
AnchorTuples(text, pos) ==
    IF pos > Len(text) THEN <<>>
    ELSE LET here == {e \in AnchorElements(text) : e[1] = pos} IN
         IF here = {} THEN AnchorTuples(text, pos + 1)
         ELSE LET e == CHOOSE x \in here : TRUE IN
              <<[url |-> SubSeq(text, e[1] + 1, e[2] - 1),
                 text |-> SubSeq(text, e[2] + 1, e[3] - 1)]>>
              \o AnchorTuples(text, e[3] + 1)

\* C9: process_links_for_template extracts all HTML links from a string: one
\* (url, text) tuple for every anchor element of the text, in order of
\* appearance, and the empty list for empty text or text without links.
C9_ExtractsAllLinks ==
    fn = "utils.process_links_for_template" =>
        ret.value = AnchorTuples(args.text, 1)

(***************************************************************************)
(* Headers and images of a page.  The src of an image is one of ImgSrcs    *)
(* and its alt one of ImgAlts; what the filter asks of them is tabulated.  *)
(***************************************************************************)
ImgSrcs == {"https://cdn.efax.com/hero.png", "https://cdn.efax.com/Icon.png", "/img/hero.png"}
ImgAlts == {"", "App Icon"}

\* src.lower().startswith("http")
StartsWithHttp(src) == src \in {"https://cdn.efax.com/hero.png", "https://cdn.efax.com/Icon.png"}
\* "icon" in src.lower() or "favicon" in src.lower()
SrcHasIcon(src) == src = "https://cdn.efax.com/Icon.png"
\* "icon" in alt.lower()
AltHasIcon(alt) == alt = "App Icon"

\* el.name.upper()
Upper(tag) ==
    CASE tag = "h1" -> "H1" [] tag = "h2" -> "H2" [] tag = "h3" -> "H3" [] OTHER -> tag

\* el.get_text(strip=True): the strings of the element, in order
RECURSIVE get_text(_, _, _)
get_text(page, el, j) ==
    IF j > Len(page) THEN <<>>
    ELSE (IF j \in TextNodes(page, el) THEN <<page[j].text>> ELSE <<>>)
         \o get_text(page, el, j + 1)

\* the images the loop passes over: utils.py, and app.py (which has no
\* test of the scheme)
image_skipped(el) == ~StartsWithHttp(el.src) \/ SrcHasIcon(el.src) \/ AltHasIcon(el.alt)
App_image_skipped(el) == SrcHasIcon(el.src) \/ AltHasIcon(el.alt)

\* the loop of get_headers_and_images_in_range from element i on
RECURSIVE scan_headers_and_images(_, _, _, _, _, _, _)
scan_headers_and_images(app, page, i, found_first_h1, reached_faq, headers, images) ==
    IF i > Len(page) THEN [headers |-> headers, images |-> images]
    ELSE LET el == page[i] IN
         IF el.tag \in {"h1", "h2", "h3"}
         THEN scan_headers_and_images(app, page, i + 1,
                  found_first_h1 \/ el.tag = "h1",
                  reached_faq \/ HasFaqText(page, i),
                  Append(headers, [tag |-> Upper(el.tag), text |-> get_text(page, i, 1)]),
                  images)
         ELSE IF el.tag = "img"
         THEN IF (IF app THEN App_image_skipped(el) ELSE image_skipped(el))
              THEN scan_headers_and_images(app, page, i + 1, found_first_h1, reached_faq,
                                           headers, images)
              ELSE scan_headers_and_images(app, page, i + 1, found_first_h1, reached_faq, headers,
                       IF found_first_h1 /\ ~reached_faq
                       THEN Append(images, [src |-> el.src, alt |-> el.alt])
                       ELSE images)
         ELSE scan_headers_and_images(app, page, i + 1, found_first_h1, reached_faq,
                                      headers, images)

get_headers_and_images_in_range(page) ==
    scan_headers_and_images(FALSE, page, 1, FALSE, FALSE, <<>>, <<>>)

App_get_headers_and_images_in_range(page) ==
    scan_headers_and_images(TRUE, page, 1, FALSE, FALSE, <<>>, <<>>)

(***************************************************************************)
(* utils.analyze_target_content.  Its environment:                         *)
(*   request   [raises, status, page]: the outcome of requests.get         *)
(*   scripts   the ld+json scripts of the page: [parses, value]            *)
(*   failing   the helper that raises (None: none does)                    *)
(*   videos    what get_embedded_videos returns                            *)
(*   alt       what get_alt_text_suggestion returns                        *)
(*   refetch   what fetch_page_content gets for the schema check           *)
(*   ai_headers  the headers extract_ai_overview_headers finds             *)
(***************************************************************************)
Helpers ==
    {"BeautifulSoup", "get_headers_and_images_in_range", "extract_full_page_content",
     "get_embedded_videos", "extract_ai_overview_headers", "compare_headers"}

\* f"{response.status_code} Forbidden"
StatusForbidden(status) ==
    CASE status = 403 -> "403 Forbidden" [] status = 404 -> "404 Forbidden"
      [] status = 500 -> "500 Forbidden" [] OTHER -> "Forbidden"

\* the page headers a header of the AI overview is similar to (is_similar:
\* a SequenceMatcher ratio of at least 0.8, case ignored)
SimilarTo(ai_header) ==
    CASE ai_header = "Plain" -> {<<"plain">>} [] OTHER -> {}

\* utils.compare_headers
compare_headers(page_headers, ai_overview_headers) ==
    SelectIdx(ai_overview_headers,
              [k \in 1..Len(ai_overview_headers) |->
                  ~\E h \in 1..Len(page_headers) :
                      page_headers[h].text \in SimilarTo(ai_overview_headers[k])], 1)

\* the values of the scripts json.loads parses; the others are reported and skipped
parsed_scripts(scripts) ==
    JsonList(SelectIdx([k \in 1..Len(scripts) |-> scripts[k].value],
                       [k \in 1..Len(scripts) |-> scripts[k].parses], 1))

\* the dict of the except branch
analysis_failed ==
    [headers |-> <<>>, missing_headers |-> <<>>, images |-> <<>>, schema_table |-> <<>>,
     videos |-> <<>>, full_content |-> "Error extracting content"]

\* the body of the try statement of utils.analyze_target_content
analyze_body(env) ==
    IF env.request.raises THEN Exc
    ELSE IF env.request.status # 200
    THEN Ok([headers |-> <<[tag |-> "", text |-> StatusForbidden(env.request.status)]>>,
             missing_headers |-> <<>>, images |-> <<>>, schema_table |-> <<>>,
             videos |-> <<>>, full_content |-> "Error: Status code"])
    ELSE IF env.failing # None THEN Exc
    ELSE LET page == env.request.page
             found == get_headers_and_images_in_range(page)
             full_page_content == extract_full_page_content(page)
             images_in_range ==
                 [k \in 1..Len(found.images) |->
                     [src |-> found.images[k].src, alt |-> found.images[k].alt,
                      suggested_alt |-> env.alt]]
             schema_table == build_schema_table(parsed_scripts(env.scripts), env.refetch)
         IN  IF schema_table.raised THEN Exc
             ELSE Ok([headers |-> found.headers,
                      missing_headers |-> compare_headers(found.headers, env.ai_headers),
                      images |-> images_in_range,
                      schema_table |-> schema_table.value,
                      videos |-> env.videos,
                      full_content |-> full_page_content])

analyze_target_content_uncaught(env) == analyze_body(env)

\* utils.analyze_target_content: the body in try, every Exception caught
analyze_target_content(env) ==
    LET body == analyze_body(env)
    IN  IF body.raised THEN Ok(analysis_failed) ELSE body

\* app.py analyze_target_content: four keys, nothing caught
App_analyze_target_content(env) ==
    IF env.request.raises THEN Exc
    ELSE IF env.request.status # 200
    THEN Ok([headers |-> <<[tag |-> "", text |-> StatusForbidden(env.request.status)]>>,
             missing_headers |-> <<>>, images |-> <<>>, schema_table |-> <<>>])
    ELSE LET page == env.request.page
             found == App_get_headers_and_images_in_range(page)
             schema_table == App_build_schema_table(parsed_scripts(env.scripts))
         IN  IF schema_table.raised THEN Exc
             ELSE Ok([headers |-> found.headers,
                      missing_headers |-> compare_headers(found.headers, env.ai_headers),
                      images |-> found.images,
                      schema_table |-> schema_table.value])

AnalysisKinds ==
    {Kind("h1", "plain"), Kind("h2", "faq"), Img("https://cdn.efax.com/hero.png", ""),
     Img("/img/hero.png", "App Icon")}

\* most elements of an analysed page
MaxAnalysisNodes == 2

Requests ==
    {[raises |-> TRUE, status |-> 0, page |-> <<>>]}
    \cup {[raises |-> FALSE, status |-> st, page |-> <<>>] : st \in {403, 404}}
    \cup {[raises |-> FALSE, status |-> 200, page |-> pg] :
             pg \in PagesUpTo(AnalysisKinds, MaxAnalysisNodes)}

Scripts ==
    {<<>>, <<[parses |-> FALSE, value |-> JsonScalar]>>,
     <<[parses |-> TRUE, value |-> JsonDict([kind |-> "str", v |-> "FAQPage"], NoKey)]>>,
     <<[parses |-> TRUE,
        value |-> JsonDict([kind |-> "list", items |-> <<[kind |-> "num"]>>], NoKey)]>>}

AnalysisEnvs ==
    [request : Requests, scripts : Scripts, failing : {None} \cup Helpers,
     videos : {<<>>, <<[tag |-> "iframe", src |-> "https://youtube.com/embed/x"]>>},
     alt : {"OpenAI API key not configured"},
     refetch : {[ok |-> FALSE, names |-> {}], [ok |-> TRUE, names |-> {"HowTo"}]},
     ai_headers : {<<>>, <<"Plain", "Pricing">>}]

InitAnalyze ==
    /\ RunIdle
    /\ fn = None
    /\ args \in [env : AnalysisEnvs]
    /\ ret = Ok(None)
    /\ locals = <<>>

CallAnalyzeTargetContent ==
    /\ fn = None
    /\ fn' = "utils.analyze_target_content"
    /\ ret' = analyze_target_content(args.env)
    /\ UNCHANGED <<args, locals, runVars>>

NextAnalyze == CallAnalyzeTargetContent

SpecAnalyze == InitAnalyze /\ [][NextAnalyze]_vars

AnalysisKeys == {"headers", "missing_headers", "images", "schema_table", "videos", "full_content"}

\* C3: utils.analyze_target_content never propagates an exception: for every
\* outcome of the page request and of its helpers it returns a dict with
\* exactly the keys headers, missing_headers, images, schema_table, videos and
\* full_content; on a non-200 status the lists missing_headers, images,
\* schema_table and videos are empty and headers holds the single entry
\* "<status> Forbidden".
C3_AlwaysReturnsSixKeys ==
    fn = "utils.analyze_target_content" =>
        /\ ~ret.raised
        /\ DOMAIN ret.value = AnalysisKeys
        /\ (~args.env.request.raises /\ args.env.request.status # 200) =>
              /\ ret.value.missing_headers = <<>> /\ ret.value.images = <<>>
              /\ ret.value.schema_table = <<>> /\ ret.value.videos = <<>>
              /\ Len(ret.value.headers) = 1
              /\ ret.value.headers[1].text = StatusForbidden(args.env.request.status)

\* a helper raised on a fetched page, and the dict of the except branch came back
C3_Witness ==
    /\ fn = "utils.analyze_target_content"
    /\ ~args.env.request.raises /\ args.env.request.status = 200
    /\ args.env.failing = "get_embedded_videos"
    /\ ~ret.raised
    /\ ret.value.headers = <<>>

(***************************************************************************)
(* app.py: what the run computes from the SERP response.  The target URL   *)
(* of the run is https://www.efax.com/, whose domain is "efax".            *)
(***************************************************************************)
RunDomain == "efax"

\* domain in link.lower()
link_has_domain(link, domain) ==
    domain = "efax" /\ link = "https://www.efax.com/fax#top"

\* url.split('#')[0]
trim_url(url) ==
    IF url = "https://www.efax.com/fax#top" THEN "https://www.efax.com/fax" ELSE url

\* the 1-based index of the first entry whose link holds the domain; 0 for None
first_with_domain(entries, domain) ==
    LET hits == {i \in 1..Len(entries) :
                    link_has_domain(Get(entries[i].link, ""), domain)}
    IN  IF hits = {} THEN 0 ELSE CHOOSE i \in hits : \A k \in hits : i <= k

\* app.py find_domain_position_in_organic (0 stands for None)
App_find_domain_position_in_organic(serp, domain) ==
    IF serp.has_organic THEN first_with_domain(serp.organic_results, domain) ELSE 0

\* app.py find_domain_position_in_ai (0 stands for None)
App_find_domain_position_in_ai(serp, domain) ==
    IF serp.ai_overview.present /\ serp.ai_overview.has_references
    THEN first_with_domain(serp.ai_overview.references, domain) ELSE 0

\* the links of the entries that hold one
links_of(entries) ==
    SelectIdx([k \in 1..Len(entries) |-> entries[k].link],
              [k \in 1..Len(entries) |-> entries[k].link # Absent], 1)

extract_competitor_urls(serp) ==
    IF serp.has_organic THEN links_of(serp.organic_results) ELSE <<>>

\* app.py get_ai_overview_competitors: none of the links of the model is a
\* priority source, so the trimmed links keep their order; at most five
App_get_ai_overview_competitors(serp) ==
    IF serp.ai_overview.present /\ serp.ai_overview.has_references
    THEN LET links == links_of(serp.ai_overview.references)
         IN  Take([k \in 1..Len(links) |-> trim_url(links[k])], 5)
    ELSE <<>>

\* the "relevant" cell of a social channel: one anchor for each ranked title,
\* with the link of the search result at the same index
relevant_links(results, ranked) ==
    [i \in 1..Len(ranked) |-> [href |-> results[i].link, title |-> ranked[i][1]]]

\* app.py generate_pdf_report: the template is rendered, wkhtmltopdf is looked
\* up (FileNotFoundError when it is nowhere), and the conversion is not guarded
App_generate_pdf_report(env) ==
    IF ~env.render_ok THEN Exc
    ELSE IF ~env.which_found /\ ~env.windows_path_exists THEN Exc
    ELSE IF ~env.configuration_ok THEN Exc
    ELSE IF ~env.convert_ok THEN Exc
    ELSE Ok([suffix |-> ".pdf", holds |-> "pdf"])

\* app.py generate_docx_report: the document is built and saved
App_generate_docx_report(env) ==
    IF env.save_ok THEN Ok("saved") ELSE Exc

(***************************************************************************)
(* The run of app.py after "Run Analysis" is pressed: the script from       *)
(* `if submitted:` to its end, one call at a time.                          *)
(***************************************************************************)
StepOrder ==
    <<"serp", "analyze", "linkedin", "reddit", "rank_linkedin", "rank_reddit",
      "youtube", "pdf", "docx">>

\* the statement after a step's call, in the order of the script
NextStepRenderingFirst(step) ==
    CASE step = "serp" -> "analyze"
      [] step = "analyze" -> "linkedin"
      [] step = "linkedin" -> "reddit"
      [] step = "reddit" -> "rank_linkedin"
      [] step = "rank_linkedin" -> "rank_reddit"
      [] step = "rank_reddit" -> "pdf"
      [] step = "pdf" -> "youtube"
      [] step = "youtube" -> "docx"
      [] step = "docx" -> "done"

NextStep(step) ==
    CASE step = "serp" -> "analyze"
      [] step = "analyze" -> "linkedin"
      [] step = "linkedin" -> "reddit"
      [] step = "reddit" -> "rank_linkedin"
      [] step = "rank_linkedin" -> "rank_reddit"
      [] step = "rank_reddit" -> "youtube"
      [] step = "youtube" -> "pdf"
      [] step = "pdf" -> "docx"
      [] step = "docx" -> "done"

RunLinks == {"https://www.efax.com/fax#top", "https://other.com/page"}
RunHits ==
    {Hit("t1", "l1", <<"YouTube", "eFax">>,
         [kind |-> "list", items |-> <<[time |-> "0:10", title |-> "Intro"]>>])}
RunScores == {70, 80}
RunTitles == {"t1"}
RunAnalysisEnvs ==
    [request : {[raises |-> TRUE, status |-> 0, page |-> <<>>],
                [raises |-> FALSE, status |-> 403, page |-> <<>>],
                [raises |-> FALSE, status |-> 200,
                 page |-> <<Node(Kind("h1", "plain"), 0),
                            Node(Img("https://cdn.efax.com/hero.png", ""), 0)>>]},
     scripts : {<<>>}, ai_headers : {<<"Pricing">>}]
RunPdfEnvs ==
    [render_ok : {TRUE}, which_found : BOOLEAN, windows_path_exists : {FALSE},
     configuration_ok : {TRUE}, convert_ok : BOOLEAN]

Init == RunIdle /\ CallIdle

\* the form is submitted: the script runs from its top with fresh variables
Submit ==
    /\ pc \in {"idle", "done", "crashed", "nokey"}
    /\ \E key \in {"", "key"} :
          /\ SERPAPI_KEY' = key
          /\ pc' = IF key = "" THEN "nokey" ELSE "serp"
    /\ active' = None /\ started' = <<>> /\ returned' = <<>>
    /\ serp_data' = None /\ content_data' = None
    /\ linkedin_results' = <<>> /\ reddit_results' = <<>>
    /\ ranked_linkedin_titles' = <<>> /\ ranked_reddit_titles' = <<>>
    /\ youtube_results' = <<>> /\ pdf_path' = None /\ downloads' = <<>>
    /\ reports' = <<>>
    /\ UNCHANGED callVars

\* the script reaches the next call and makes it
StartStep ==
    /\ pc \in Range(StepOrder)
    /\ active = None
    /\ active' = pc
    /\ started' = Append(started, pc)
    /\ UNCHANGED <<pc, returned, SERPAPI_KEY, serp_data, content_data, linkedin_results,
                   reddit_results, ranked_linkedin_titles, ranked_reddit_titles,
                   youtube_results, pdf_path, downloads, reports, callVars>>

\* the call in progress ends: it returns and the script goes on, or it raises
\* and the run ends with the exception
Ends(step, outcome) ==
    /\ active = step
    /\ active' = None
    /\ pc' = IF outcome.raised THEN "crashed" ELSE NextStep(step)
    /\ returned' = IF outcome.raised THEN returned ELSE Append(returned, step)
    /\ UNCHANGED <<started, SERPAPI_KEY, callVars>>

FinishSerp ==
    \E client \in Clients(RunLinks, MaxRunOrganic, {FALSE}) :
        LET r == App_get_serp_results(client) IN
        /\ Ends("serp", r)
        /\ serp_data' = IF r.raised THEN serp_data ELSE r.value
        /\ UNCHANGED <<content_data, linkedin_results, reddit_results,
                       ranked_linkedin_titles, ranked_reddit_titles, youtube_results,
                       pdf_path, downloads, reports>>

FinishAnalyze ==
    \E env \in RunAnalysisEnvs :
        LET r == App_analyze_target_content(env) IN
        /\ Ends("analyze", r)
        /\ content_data' = IF r.raised THEN content_data ELSE r.value
        /\ UNCHANGED <<serp_data, linkedin_results, reddit_results,
                       ranked_linkedin_titles, ranked_reddit_titles, youtube_results,
                       pdf_path, downloads, reports>>

FinishLinkedin ==
    \E search \in Searches(RunHits, MaxRunResults) :
        LET r == App_get_social_results(search, 5) IN
        /\ Ends("linkedin", r)
        /\ linkedin_results' = IF r.raised THEN linkedin_results ELSE r.value
        /\ UNCHANGED <<serp_data, content_data, reddit_results,
                       ranked_linkedin_titles, ranked_reddit_titles, youtube_results,
                       pdf_path, downloads, reports>>

FinishReddit ==
    \E search \in Searches(RunHits, MaxRunResults) :
        LET r == App_get_social_results(search, 5) IN
        /\ Ends("reddit", r)
        /\ reddit_results' = IF r.raised THEN reddit_results ELSE r.value
        /\ UNCHANGED <<serp_data, content_data, linkedin_results,
                       ranked_linkedin_titles, ranked_reddit_titles, youtube_results,
                       pdf_path, downloads, reports>>

\* the titles of search results
titles_of(results) == [k \in 1..Len(results) |-> results[k].title]

FinishRankLinkedin ==
    \E sim \in [RunTitles -> RunScores], model_raises \in BOOLEAN :
        LET titles == titles_of(linkedin_results) IN
        \E order \in argsort([k \in 1..Len(titles) |-> sim[titles[k]]]) :
            LET r == App_rank_titles_by_semantic_similarity(titles, sim, 75,
                                                            model_raises, order) IN
            /\ Ends("rank_linkedin", r)
            /\ ranked_linkedin_titles' = IF r.raised THEN ranked_linkedin_titles ELSE r.value
            /\ UNCHANGED <<serp_data, content_data, linkedin_results, reddit_results,
                           ranked_reddit_titles, youtube_results, pdf_path, downloads, reports>>

FinishRankReddit ==
    \E sim \in [RunTitles -> RunScores], model_raises \in BOOLEAN :
        LET titles == titles_of(reddit_results) IN
        \E order \in argsort([k \in 1..Len(titles) |-> sim[titles[k]]]) :
            LET r == App_rank_titles_by_semantic_similarity(titles, sim, 75,
                                                            model_raises, order) IN
            /\ Ends("rank_reddit", r)
            /\ ranked_reddit_titles' = IF r.raised THEN ranked_reddit_titles ELSE r.value
            /\ UNCHANGED <<serp_data, content_data, linkedin_results, reddit_results,
                           ranked_linkedin_titles, youtube_results, pdf_path, downloads, reports>>

FinishYoutube ==
    \E search \in Searches(RunHits, MaxRunResults) :
        LET r == App_get_youtube_results(search, 5) IN
        /\ Ends("youtube", r)
        /\ youtube_results' = IF r.raised THEN youtube_results ELSE r.value
        /\ UNCHANGED <<serp_data, content_data, linkedin_results, reddit_results,
                       ranked_linkedin_titles, ranked_reddit_titles, pdf_path, downloads, reports>>

\* the data both renderers are given
report_data ==
    [domain |-> IF RunDomain = "efax" THEN "eFax" ELSE RunDomain,
     competitor_urls |-> extract_competitor_urls(serp_data),
     ai_overview_competitors |-> App_get_ai_overview_competitors(serp_data),
     domain_organic_position |-> App_find_domain_position_in_organic(serp_data, RunDomain),
     domain_ai_position |-> App_find_domain_position_in_ai(serp_data, RunDomain),
     content_analysis |-> content_data,
     social_channels |->
        <<[channel |-> "LinkedIn",
           relevant |-> relevant_links(linkedin_results, ranked_linkedin_titles)],
          [channel |-> "Reddit",
           relevant |-> relevant_links(reddit_results, ranked_reddit_titles)]>>,
     youtube_results |-> youtube_results,
     ranked_linkedin_titles |-> ranked_linkedin_titles,
     ranked_reddit_titles |-> ranked_reddit_titles]

\* str(position): the digits of a position; "None" for None
str(position) ==
    CASE position = 0 -> "None" [] position = 1 -> "1" [] position = 2 -> "2"
      [] position = 3 -> "3" [] position = 4 -> "4" [] OTHER -> "5"

\* a name of the template's context, render(**data): the value of the key of
\* that name; a name that is no key of data is undefined, which is false in
\* a test as None is (0 stands for both)
context_value(data, name) == IF name \in DOMAIN data THEN data[name] ELSE 0

\* {{ x if x else otherwise }}
shown_or(x, otherwise) == IF x # 0 THEN str(x) ELSE otherwise

\* app.py generate_docx_report: the second row of the "Domain Ranking" table,
\* str(data.get(key, "Not Ranking")) in each cell
App_docx_ranking_row(data) ==
    [organic |-> IF "domain_organic_position" \in DOMAIN data
                 THEN str(data["domain_organic_position"]) ELSE "Not Ranking",
     ai |-> IF "domain_ai_position" \in DOMAIN data
            THEN str(data["domain_ai_position"]) ELSE "Not Ranking"]

\* app.py generate_pdf_report: the body row of the ranking table of the template
App_pdf_ranking_row(data) ==
    [organic |-> shown_or(context_value(data, "organic_position"),
                          "Not Ranking within 5 Pages"),
     ai |-> shown_or(context_value(data, "ai_position"), "Not Ranking")]

\* generate_pdf_report returns and the PDF download is offered
FinishPdf ==
    \E env \in RunPdfEnvs :
        LET r == App_generate_pdf_report(env) IN
        /\ Ends("pdf", r)
        /\ pdf_path' = IF r.raised THEN pdf_path ELSE r.value.suffix
        /\ downloads' = IF r.raised THEN downloads ELSE Append(downloads, "pdf")
        /\ reports' = IF r.raised THEN reports
                      ELSE Append(reports, [renderer |-> "pdf",
                                            ranking |-> App_pdf_ranking_row(report_data)])
        /\ UNCHANGED <<serp_data, content_data, linkedin_results, reddit_results,
                       ranked_linkedin_titles, ranked_reddit_titles, youtube_results>>

\* generate_docx_report returns and, the file being there, the DOCX download
\* is offered
FinishDocx ==
    \E env \in [save_ok : BOOLEAN] :
        LET r == App_generate_docx_report(env) IN
        /\ Ends("docx", r)
        /\ downloads' = IF r.raised THEN downloads ELSE Append(downloads, "docx")
        /\ reports' = IF r.raised THEN reports
                      ELSE Append(reports, [renderer |-> "docx",
                                            ranking |-> App_docx_ranking_row(report_data)])
        /\ UNCHANGED <<serp_data, content_data, linkedin_results, reddit_results,
                       ranked_linkedin_titles, ranked_reddit_titles, youtube_results,
                       pdf_path>>

Next ==
    \/ Submit
    \/ StartStep
    \/ FinishSerp
    \/ FinishAnalyze
    \/ FinishLinkedin
    \/ FinishReddit
    \/ FinishRankLinkedin
    \/ FinishRankReddit
    \/ FinishYoutube
    \/ FinishPdf
    \/ FinishDocx

Spec == Init /\ [][Next]_vars

IsPrefix(a, b) == Len(a) <= Len(b) /\ \A i \in 1..Len(a) : a[i] = b[i]

FetchSteps ==
    {"serp", "analyze", "linkedin", "reddit", "rank_linkedin", "rank_reddit", "youtube"}

\* C1: a submitted run with a non-empty SERP API key performs its steps in
\* the fixed order SERP search, target analysis, LinkedIn and Reddit searches,
\* semantic ranking of their titles, YouTube search, PDF rendering, DOCX
\* rendering; each step starts only after the previous one returned, and no
\* rendering step starts before every data-fetching step has finished.
C1_FixedStepOrder ==
    SERPAPI_KEY # "" =>
        /\ IsPrefix(started, StepOrder)
        /\ IsPrefix(returned, started)
        /\ Len(started) <= Len(returned) + 1
        /\ (active # None) =>
              Len(started) = Len(returned) + 1 /\ started[Len(started)] = active
        /\ (Range(started) \cap {"pdf", "docx"} # {}) => FetchSteps \subseteq Range(returned)
        /\ (pc = "done") => returned = StepOrder

\* a run that went through every step and offers both downloads
C1_Witness ==
    /\ SERPAPI_KEY # "" /\ pc = "done"
    /\ started = StepOrder /\ returned = StepOrder
    /\ downloads = <<"pdf", "docx">>
    /\ Len(report_data.youtube_results) = 1

NotRankingTexts == {"Not Ranking", "Not Ranking within 5 Pages"}

\* the ranking rows of the reports of a renderer
RankingRows(renderer) ==
    {reports[k].ranking : k \in {i \in 1..Len(reports) : reports[i].renderer = renderer}}

\* what a ranking cell has to show for a position
ShowsPosition(cell, position) ==
    IF position # 0 THEN cell = str(position) ELSE cell \in NotRankingTexts

\* C11: the two renderers of app.py show the same domain ranking for the
\* report data of the run: with organic position n and AI-overview position m
\* both the DOCX and the PDF display n and m in the ranking table, and when
\* the domain was not found both display a not-ranking text.
C11_SameRanking ==
    (pc = "done") =>
        \A row \in RankingRows("docx") \cup RankingRows("pdf") :
            /\ ShowsPosition(row.organic, report_data.domain_organic_position)
            /\ ShowsPosition(row.ai, report_data.domain_ai_position)

(***************************************************************************)
(* utils.py: the position of the domain in the SERP data.  A host name is  *)
(* the sequence of its labels, lower-cased; a returned position is         *)
(* [found, position, text]: the 1-based index, or the text returned        *)
(* instead of one.                                                         *)
(***************************************************************************)
PositionLinks ==
    {"https://www.efax.com/fax#top", "https://support.efax.com/help",
     "https://other.com/page", Absent}

PositionDomains == {<<"efax">>, <<"efax", "com">>, <<"www", "efax", "com">>}

\* urlparse(url.lower()).netloc
netloc(url) ==
    CASE url = "https://www.efax.com/fax#top" -> <<"www", "efax", "com">>
      [] url = "https://support.efax.com/help" -> <<"support", "efax", "com">>
      [] url = "https://other.com/page" -> <<"other", "com">>
      [] OTHER -> <<>>

\* name.replace('www.', '')
replace_www(labels) == SelectSeq(labels, LAMBDA l : l # "www")

\* url_domain.endswith('.' + target_domain)
ends_with_dot(url_domain, target_domain) ==
    /\ Len(target_domain) < Len(url_domain)
    /\ \A k \in 1..Len(target_domain) :
          url_domain[Len(url_domain) - Len(target_domain) + k] = target_domain[k]

\* utils.is_domain_match
is_domain_match(url, target_domain) ==
    IF url = "" THEN FALSE
    ELSE LET url_domain == replace_www(netloc(url)) IN
         \/ url_domain = target_domain
         \/ ends_with_dot(url_domain, target_domain)
         \/ (Len(target_domain) = 1 /\ target_domain[1] \in Range(url_domain))

PositionAt(i) == [found |-> TRUE, position |-> i, text |-> ""]
PositionText(text) == [found |-> FALSE, position |-> 0, text |-> text]

\* the loop over the entries from index i on: the first one whose link
\* matches returns its index, and when none does the text is returned
RECURSIVE first_match(_, _, _, _)
first_match(entries, domain, i, otherwise) ==
    IF i > Len(entries) THEN PositionText(otherwise)
    ELSE IF is_domain_match(Get(entries[i].link, ""), domain) THEN PositionAt(i)
    ELSE first_match(entries, domain, i + 1, otherwise)

\* utils.find_domain_position_in_organic
find_domain_position_in_organic(serp, domain) ==
    IF serp.has_organic
    THEN first_match(serp.organic_results, replace_www(domain), 1, "> 50")
    ELSE PositionText("Not Ranking")

\* utils.find_domain_position_in_ai
find_domain_position_in_ai(serp, domain) ==
    IF serp.ai_overview.present /\ serp.ai_overview.has_references
    THEN first_match(serp.ai_overview.references, replace_www(domain), 1, "Not Ranking")
    ELSE PositionText("AI Not Appearing")

InitPosition ==
    /\ RunIdle
    /\ fn = None
    /\ args \in [serp_data : SerpDicts(PositionLinks, MaxOrganic, {FALSE}),
                 domain : PositionDomains]
    /\ ret = Ok(None)
    /\ locals = <<>>

CallFindDomainPositionInOrganic ==
    /\ fn = None
    /\ fn' = "utils.find_domain_position_in_organic"
    /\ ret' = Ok(find_domain_position_in_organic(args.serp_data, args.domain))
    /\ UNCHANGED <<args, locals, runVars>>

CallFindDomainPositionInAi ==
    /\ fn = None
    /\ fn' = "utils.find_domain_position_in_ai"
    /\ ret' = Ok(find_domain_position_in_ai(args.serp_data, args.domain))
    /\ UNCHANGED <<args, locals, runVars>>

NextPosition == CallFindDomainPositionInOrganic \/ CallFindDomainPositionInAi

SpecPosition == InitPosition /\ [][NextPosition]_vars

\* the indexes of the entries whose link matches the domain
Matching(entries, domain) ==
    {i \in 1..Len(entries) :
        is_domain_match(IF entries[i].link = Absent THEN "" ELSE entries[i].link,
                        replace_www(domain))}

\* the position is the first of the matching indexes
IsFirstOf(position, matching) ==
    /\ position.found
    /\ position.position \in matching
    /\ \A k \in matching : position.position <= k

\* C12: utils.find_domain_position_in_organic returns the 1-based index of
\* the first organic result whose link matches the domain, "> 50" when
\* organic results exist but none matches, and "Not Ranking" when no organic
\* results are found in the SERP data (key absent or list empty).
C12_OrganicPosition ==
    (fn = "utils.find_domain_position_in_organic") =>
        LET organic == args.serp_data.organic_results
            matching == Matching(organic, args.domain)
        IN  /\ (matching # {}) => IsFirstOf(ret.value, matching)
            /\ (organic # <<>> /\ matching = {}) => ret.value = PositionText("> 50")
            /\ (organic = <<>>) => ret.value = PositionText("Not Ranking")

\* C13: utils.find_domain_position_in_ai returns "AI Not Appearing" if and
\* only if the SERP data has no AI overview; when an AI overview exists it
\* returns the 1-based index of the first reference whose link matches the
\* domain, or "Not Ranking" when no reference matches.
C13_AiPosition ==
    (fn = "utils.find_domain_position_in_ai") =>
        LET ai == args.serp_data.ai_overview
            matching == Matching(ai.references, args.domain)
        IN  /\ (ret.value = PositionText("AI Not Appearing")) <=> ~ai.present
            /\ (ai.present /\ matching # {}) => IsFirstOf(ret.value, matching)
            /\ (ai.present /\ matching = {}) => ret.value = PositionText("Not Ranking")

(***************************************************************************)
(* get_headers_and_images_in_range run one element at a time: the locals   *)
(* of its loop are the index i of the next element of                      *)
(* soup.find_all(["h1", "h2", "h3", "img"]), the two flags and the two     *)
(* lists.  A page is a sequence of elements in document order.             *)
(***************************************************************************)
\* most elements of a scanned page
MaxScanNodes == 4

ScanKinds ==
    {Kind("h1", "plain"), Kind("h2", "faq"), Kind("h3", "plain"),
     Img("https://cdn.efax.com/hero.png", ""), Img("https://cdn.efax.com/Icon.png", ""),
     Img("/img/hero.png", ""), Img("https://cdn.efax.com/hero.png", "App Icon")}

ScanPages ==
    {[i \in 1..Len(kinds) |-> Node(kinds[i], 0)] : kinds \in SeqsUpTo(ScanKinds, MaxScanNodes)}

ScanFns == {"utils.get_headers_and_images_in_range", "app.get_headers_and_images_in_range"}

\* the locals before the loop
scan_start ==
    [i |-> 1, found_first_h1 |-> FALSE, reached_faq |-> FALSE,
     headers |-> <<>>, images |-> <<>>, returned |-> FALSE]

\* one turn of the loop that keeps every image after the first H1, FAQ or not
scan_step_past_faq(app, page, l) ==
    LET el == page[l.i] IN
    IF el.tag \in {"h1", "h2", "h3"}
    THEN [l EXCEPT !.i = l.i + 1,
                   !.headers = Append(l.headers, [tag |-> Upper(el.tag),
                                                   text |-> get_text(page, l.i, 1)]),
                   !.found_first_h1 = l.found_first_h1 \/ el.tag = "h1",
                   !.reached_faq = l.reached_faq \/ HasFaqText(page, l.i)]
    ELSE IF el.tag = "img" /\ ~(IF app THEN App_image_skipped(el) ELSE image_skipped(el))
            /\ l.found_first_h1
    THEN [l EXCEPT !.i = l.i + 1,
                   !.images = Append(l.images, [src |-> el.src, alt |-> el.alt])]
    ELSE [l EXCEPT !.i = l.i + 1]

\* one turn of the loop, on element l.i
scan_step(app, page, l) ==
    LET el == page[l.i] IN
    IF el.tag \in {"h1", "h2", "h3"}
    THEN [l EXCEPT !.i = l.i + 1,
                   !.headers = Append(l.headers, [tag |-> Upper(el.tag),
                                                   text |-> get_text(page, l.i, 1)]),
                   !.found_first_h1 = l.found_first_h1 \/ el.tag = "h1",
                   !.reached_faq = l.reached_faq \/ HasFaqText(page, l.i)]
    ELSE IF el.tag = "img" /\ ~(IF app THEN App_image_skipped(el) ELSE image_skipped(el))
            /\ l.found_first_h1 /\ ~l.reached_faq
    THEN [l EXCEPT !.i = l.i + 1,
                   !.images = Append(l.images, [src |-> el.src, alt |-> el.alt])]
    ELSE [l EXCEPT !.i = l.i + 1]

InitScan ==
    /\ RunIdle
    /\ fn = None
    /\ args \in [page : ScanPages]
    /\ ret = Ok(None)
    /\ locals = <<>>

CallGetHeadersAndImagesInRange ==
    /\ fn = None
    /\ fn' = "utils.get_headers_and_images_in_range"
    /\ locals' = scan_start
    /\ UNCHANGED <<args, ret, runVars>>

CallAppGetHeadersAndImagesInRange ==
    /\ fn = None
    /\ fn' = "app.get_headers_and_images_in_range"
    /\ locals' = scan_start
    /\ UNCHANGED <<args, ret, runVars>>

\* for el in soup.find_all([...]): the body of the loop for the next element
ScanElement ==
    /\ fn \in ScanFns
    /\ locals.i <= Len(args.page)
    /\ locals' = scan_step(fn = "app.get_headers_and_images_in_range", args.page, locals)
    /\ UNCHANGED <<fn, args, ret, runVars>>

\* return headers, images
ReturnHeadersAndImages ==
    /\ fn \in ScanFns
    /\ locals.i > Len(args.page)
    /\ ~locals.returned
    /\ ret' = Ok([headers |-> locals.headers, images |-> locals.images])
    /\ locals' = [locals EXCEPT !.returned = TRUE]
    /\ UNCHANGED <<fn, args, runVars>>

NextScan ==
    \/ CallGetHeadersAndImagesInRange
    \/ CallAppGetHeadersAndImagesInRange
    \/ ScanElement
    \/ ReturnHeadersAndImages

SpecScan == InitScan /\ [][NextScan]_vars

\* the first H1 and the first h1/h2/h3 whose text contains "faq": their
\* places in document order, 0 for none
FirstH1(page) ==
    LET h1s == {i \in 1..Len(page) : page[i].tag = "h1"}
    IN  IF h1s = {} THEN 0 ELSE CHOOSE i \in h1s : \A k \in h1s : i <= k

FirstFaqHeader(page) ==
    LET faqs == {i \in 1..Len(page) : page[i].tag \in {"h1", "h2", "h3"} /\ HasFaqText(page, i)}
    IN  IF faqs = {} THEN 0 ELSE CHOOSE i \in faqs : \A k \in faqs : i <= k

\* element i is after the first H1 and before the first FAQ header
InRange(page, i) ==
    /\ FirstH1(page) # 0 /\ i > FirstH1(page)
    /\ (FirstFaqHeader(page) = 0 \/ i < FirstFaqHeader(page))

\* an image the filter of the function lets through
PassesFilter(f, el) ==
    /\ ~SrcHasIcon(el.src) /\ ~AltHasIcon(el.alt)
    /\ (f = "utils.get_headers_and_images_in_range") => StartsWithHttp(el.src)

ImagesInRange(f, page) ==
    SelectIdx([k \in 1..Len(page) |-> [src |-> page[k].src, alt |-> page[k].alt]],
              [k \in 1..Len(page) |->
                  page[k].tag = "img" /\ InRange(page, k) /\ PassesFilter(f, page[k])], 1)

AllHeaders(page) ==
    SelectIdx([k \in 1..Len(page) |-> [tag |-> Upper(page[k].tag), text |-> get_text(page, k, 1)]],
              [k \in 1..Len(page) |-> page[k].tag \in {"h1", "h2", "h3"}], 1)

FairSpec ==
    /\ Spec
    /\ WF_vars(StartStep)
    /\ WF_vars(FinishSerp) /\ WF_vars(FinishAnalyze)
    /\ WF_vars(FinishLinkedin) /\ WF_vars(FinishReddit)
    /\ WF_vars(FinishRankLinkedin) /\ WF_vars(FinishRankReddit)
    /\ WF_vars(FinishYoutube)
    /\ WF_vars(FinishPdf) /\ WF_vars(FinishDocx)

\* st.success("Analysis complete!") is reached: every fetching call has
\* returned and the script is at the rendering of the PDF
AnalysisComplete == SERPAPI_KEY # "" /\ pc = "pdf" /\ active = None

\* C15: a failure of PDF rendering does not prevent the DOCX report: in every
\* run in which the analysis completes, generate_docx_report is eventually
\* called (no run ends after the analysis without that call), and once it
\* has returned the DOCX download is offered, whether or not
\* generate_pdf_report succeeded.
C15_DocxDespitePdfFailure ==
    /\ AnalysisComplete ~> ("docx" \in Range(started))
    /\ []((pc = "crashed" /\ "youtube" \in Range(returned)) => ("docx" \in Range(started)))
    /\ [](("docx" \in Range(returned)) => ("docx" \in Range(downloads)))

(***************************************************************************)
(* report_generator.py: the "All AI Overview Sources" table of the two     *)
(* renderers.  A value of the report data carries its Python type:         *)
(* a string, an integer or None.  A competitor entry is [url, position];   *)
(* the data holds the competitors of the primary keyword and, for each     *)
(* secondary keyword in the order of the dict, the competitors of it.      *)
(***************************************************************************)
\* most competitors of the primary keyword
MaxSources == 2

StrValue(text) == [type |-> "str", int |-> 0, str |-> text]
IntValue(n) == [type |-> "int", int |-> n, str |-> ""]
NoneValue == [type |-> "NoneType", int |-> 0, str |-> ""]

\* bool(v)
truthy(v) ==
    CASE v.type = "str" -> v.str # ""
      [] v.type = "int" -> v.int # 0
      [] OTHER -> FALSE

\* str(v), which is also what {{ v }} writes
py_str(v) ==
    CASE v.type = "str" -> v.str
      [] v.type = "int" -> str(v.int)
      [] OTHER -> "None"

SourceUrls == {StrValue("https://a.com/fax"), StrValue("https://b.com/fax"), StrValue("")}
SourcePositions ==
    {IntValue(1), IntValue(2), StrValue("> 50"), StrValue("Not Ranking"), NoneValue}
SourceEntries == [url : SourceUrls, position : SourcePositions]

SourcesData ==
    [ai_overview_competitors : SeqsUpTo(SourceEntries, MaxSources),
     secondary_ai_overview_competitors :
        {<<>>} \cup {<<[keyword |-> "fax online", competitors |-> c]>> :
                        c \in SeqsUpTo(SourceEntries, 1)}]

\* the competitors of the secondary keywords from the i-th keyword on,
\* appended in the order of the dict
RECURSIVE secondary_competitors(_, _)
secondary_competitors(secondary, i) ==
    IF i > Len(secondary) THEN <<>>
    ELSE secondary[i].competitors \o secondary_competitors(secondary, i + 1)

\* both renderers: the competitors of the primary keyword, then the others
all_ai_competitors(data) ==
    data.ai_overview_competitors
        \o secondary_competitors(data.secondary_ai_overview_competitors, 1)

\* generate_docx_report: for competitor in all_ai_competitors:
\*     if url and url not in unique_urls: ...
RECURSIVE docx_unique(_, _, _)
docx_unique(all, i, unique_urls) ==
    IF i > Len(all) THEN <<>>
    ELSE IF truthy(all[i].url) /\ all[i].url \notin unique_urls
    THEN <<all[i]>> \o docx_unique(all, i + 1, unique_urls \cup {all[i].url})
    ELSE docx_unique(all, i + 1, unique_urls)

\* generate_docx_report: the rows below the header of the table
docx_ai_sources(data) ==
    LET unique_ai_competitors == docx_unique(all_ai_competitors(data), 1, {}) IN
    [k \in 1..Len(unique_ai_competitors) |->
        [url |-> py_str(unique_ai_competitors[k].url),
         position |-> IF unique_ai_competitors[k].position # NoneValue
                      THEN py_str(unique_ai_competitors[k].position) ELSE "> 50"]]

\* the template: {% for item in all_competitors %}
\*     {% if item.url not in unique_urls %} ... <tr>
RECURSIVE pdf_unique(_, _, _)
pdf_unique(all, i, unique_urls) ==
    IF i > Len(all) THEN <<>>
    ELSE IF all[i].url \notin unique_urls
    THEN <<all[i]>> \o pdf_unique(all, i + 1, unique_urls \cup {all[i].url})
    ELSE pdf_unique(all, i + 1, unique_urls)

\* generate_pdf_report: the rows of the body of the table
pdf_ai_sources(data) ==
    LET shown == pdf_unique(all_ai_competitors(data), 1, {}) IN
    [k \in 1..Len(shown) |->
        [url |-> py_str(shown[k].url),
         position |-> IF truthy(shown[k].position)
                      THEN py_str(shown[k].position) ELSE "> 50"]]

InitSources ==
    /\ RunIdle
    /\ fn = None
    /\ args \in [data : SourcesData]
    /\ ret = Ok(None)
    /\ locals = <<>>

\* generate_docx_report(data, ...) writes its document
CallReportGenerateDocxReport ==
    /\ \A k \in 1..Len(reports) : reports[k].renderer # "docx"
    /\ fn' = "report_generator.generate_docx_report"
    /\ reports' = Append(reports, [renderer |-> "docx",
                                   ai_sources |-> docx_ai_sources(args.data)])
    /\ UNCHANGED <<args, locals, ret, pc, active, started, returned, SERPAPI_KEY, serp_data,
                   content_data, linkedin_results, reddit_results, ranked_linkedin_titles,
                   ranked_reddit_titles, youtube_results, pdf_path, downloads>>

\* generate_pdf_report(data) renders its template
CallReportRenderPdfReport ==
    /\ \A k \in 1..Len(reports) : reports[k].renderer # "pdf"
    /\ fn' = "report_generator.generate_pdf_report"
    /\ reports' = Append(reports, [renderer |-> "pdf",
                                   ai_sources |-> pdf_ai_sources(args.data)])
    /\ UNCHANGED <<args, locals, ret, pc, active, started, returned, SERPAPI_KEY, serp_data,
                   content_data, linkedin_results, reddit_results, ranked_linkedin_titles,
                   ranked_reddit_titles, youtube_results, pdf_path, downloads>>

NextSources == CallReportGenerateDocxReport \/ CallReportRenderPdfReport

SpecSources == InitSources /\ [][NextSources]_vars

\* C16: for the same report data the DOCX renderer and the PDF renderer of
\* report_generator.py list the same URLs, in the same order and each exactly
\* once, in their "All AI Overview Sources" tables, and show the same
\* SERP-position text for each URL.
C16_SameAiSources ==
    \A d, p \in 1..Len(reports) :
        (reports[d].renderer = "docx" /\ reports[p].renderer = "pdf") =>
            /\ reports[d].ai_sources = reports[p].ai_sources
            /\ \A i, j \in 1..Len(reports[d].ai_sources) :
                  i # j => reports[d].ai_sources[i].url # reports[d].ai_sources[j].url

====
